---- MODULE Spec2Model ----
(***************************************************************************)
(* The RAG pipeline of the fitness journal backend: the /plan/generate     *)
(* endpoint (backend/src/index.ts) and the embedding, persistence,         *)
(* retrieval and completion steps it calls (backend/src/aiService.ts),     *)
(* run by concurrent requests against one document store.                  *)
(*                                                                         *)
(* A text is a sequence of one-character (or one-token) strings, so that   *)
(* joining, filtering of empty parts and template rendering are computed.  *)
(* A component of an embedding vector is the pair <<text, i>>: the i-th    *)
(* number the provider computed for that text.                             *)
(***************************************************************************)
EXTENDS Integers, Sequences, FiniteSets, TLC

\* ------------------------------------------------------------------ bounds
\* Source documents in the store (plans and entries together).
MaxDocs == 3
\* Components of one embedding vector as the provider computes it.
EmbedDim == 2
\* Entries the user adds on the entries page in one run.
MaxAdds == 2

DocIds == 1..MaxDocs
\* The requests to /plan/generate of one run. They may arrive one after the
\* other or overlap; their handlers share nothing but the store.
Requests == {"r1", "r2"}
Users == {"u1", "u2"}
\* The value of userId when neither the query nor the body carries one.
NoUser == "undefined"

\* --------------------------------------------------------- program constants
topK == 5

EMBEDDING_MODEL == "sentence-transformers/all-mpnet-base-v2"
COMPLETION_MODEL == "google/gemma-3-4b-instruct:free"
DEFAULT_INPUT == <<"Create a new fitness plan">>
NO_CONTENT == <<"No content">>
NO_CONTEXT == <<"No previous context available.">>

\* ------------------------------------------------------------------- texts
Empty == <<>>

\* JavaScript's a || b on strings: the empty string is falsy.
OrElse(a, b) == IF a # Empty THEN a ELSE b

\* Array.prototype.join: the parts separated by sep, no separator at the ends.
RECURSIVE Join(_, _)
Join(parts, sep) ==
  IF parts = <<>> THEN Empty
  ELSE IF Len(parts) = 1 THEN parts[1]
  ELSE parts[1] \o sep \o Join(Tail(parts), sep)

\* Array.prototype.filter(Boolean) on strings: drops the empty ones.
Truthy(s) == s # Empty
FilterBoolean(parts) == SelectSeq(parts, Truthy)

\* Array.prototype.flat on a list of lists.
RECURSIVE Flat(_)
Flat(rows) == IF rows = <<>> THEN <<>> ELSE rows[1] \o Flat(Tail(rows))

\* ------------------------------------------------------ source documents
\* The rows the CRUD side of the application leaves in the store. A plan row
\* carries plan_text and generated_at; an entry row carries content, a type
\* and, depending on who wrote it, title/name/description/notes/timestamp.
BlankDoc ==
  [id |-> 0, table |-> "entries", user_id |-> "u1", is_embedded |-> FALSE,
   plan_text |-> Empty, title |-> Empty, name |-> Empty, description |-> Empty,
   content |-> Empty, notes |-> Empty, type |-> "", generated_at |-> "",
   timestamp |-> ""]

PlanShape ==
  [BlankDoc EXCEPT !.table = "plans", !.plan_text = <<"P">>, !.generated_at = "t0"]
EmptyPlanShape ==
  [BlankDoc EXCEPT !.table = "plans", !.generated_at = "t0"]
EntryShape ==
  [BlankDoc EXCEPT !.content = <<"c">>, !.type = "workout_note", !.timestamp = "t1"]
TitledEntryShape ==
  [BlankDoc EXCEPT !.title = <<"T">>, !.content = <<"c">>, !.type = "workout_note"]
NotesEntryShape ==
  [BlankDoc EXCEPT !.notes = <<"n">>, !.type = "workout_note"]
BareEntryShape ==
  [BlankDoc EXCEPT !.type = "workout_note"]

DocShapes ==
  <<EntryShape, PlanShape, NotesEntryShape, TitledEntryShape, EmptyPlanShape,
    BareEntryShape>>

\* The store holds documents 1..MaxDocs: document d has the d-th shape (the
\* shapes repeat after the last) and belongs to user Owner(d).
ShapeOf(d) == DocShapes[((d - 1) % Len(DocShapes)) + 1]
Owner(d) == IF d % 2 = 1 THEN "u1" ELSE "u2"

\* app_users.goal: u1 has set a goal, u2 has cleared it (null).
StoredGoal(u) == IF u = "u1" THEN <<"Run a 5K">> ELSE Empty

\* ------------------------------------------------- pure parts of the pipeline
\* updateEmbeddings: the text submitted for one document, and the texts of a
\* batch.
extractText(doc) ==
  LET textParts ==
        Join(FilterBoolean(<<OrElse(doc.title, doc.name), doc.description,
                             OrElse(doc.content, doc.notes)>>), <<" ">>)
  IN OrElse(textParts, NO_CONTENT)
textsOf(documents) == [i \in 1..Len(documents) |-> extractText(documents[i])]

\* What the feature-extraction endpoint may answer for a text: a flat vector
\* (a pooling deployment), one vector per token of the text (a deployment
\* without pooling), or something that is no list at all.
FlatAnswer(text) ==
  [isArray |-> TRUE, firstIsArray |-> FALSE,
   val |-> [i \in 1..EmbedDim |-> <<text, i>>]]
NestedAnswer(text) ==
  [isArray |-> TRUE, firstIsArray |-> TRUE,
   val |-> [t \in 1..Len(text) |->
              [i \in 1..EmbedDim |-> <<text, (t - 1) * EmbedDim + i>>]]]
ScalarAnswer == [isArray |-> FALSE, firstIsArray |-> FALSE, val |-> <<>>]
HFAnswers(pooled, text) ==
  {IF pooled THEN FlatAnswer(text) ELSE NestedAnswer(text), ScalarAnswer}

\* Mutant of flatEmbedding: of a list of lists only the first inner list is
\* kept.
flatEmbedding_FirstRow(res) == IF res.firstIsArray THEN res.val[1] ELSE res.val

\* embedDocuments: one answer turned into one flat vector.
flatEmbedding(res) == IF res.firstIsArray THEN Flat(res.val) ELSE res.val

\* Mutant of AttachEmbeddings: the embeddings are attached in reverse order.
AttachEmbeddings_Reversed(documents, embs) ==
  [idx \in 1..Len(documents) |->
     [embedding |-> embs[Len(documents) + 1 - idx], is_embedded |-> TRUE]
       @@ documents[idx]]

\* updateEmbeddings: the documents with their embeddings attached.
AttachEmbeddings(documents, embs) ==
  [idx \in 1..Len(documents) |->
     [embedding |-> embs[idx], is_embedded |-> TRUE] @@ documents[idx]]

\* saveEmbeddingsToDB: the two partitions of updatedDocs.
IsPlan(doc) == doc.plan_text # Empty
IsEntry(doc) == doc.content # Empty /\ ~(doc.plan_text # Empty)
PlansOf(updatedDocs) == SelectSeq(updatedDocs, IsPlan)
EntriesOf(updatedDocs) == SelectSeq(updatedDocs, IsEntry)

\* The items in the order the two loops visit them, each with the table its
\* flag update addresses.
AsPlanItem(doc) == [table |-> "plans", doc |-> doc]
AsEntryItem(doc) == [table |-> "entries", doc |-> doc]
SaveItems(updatedDocs) ==
  LET plans == PlansOf(updatedDocs)
      entries == EntriesOf(updatedDocs)
  IN [i \in 1..Len(plans) |-> AsPlanItem(plans[i])]
       \o [i \in 1..Len(entries) |-> AsEntryItem(entries[i])]

\* The row inserted into ai_docs for an item.
PlanRecord(plan, uid) ==
  [user_id |-> uid, type |-> "plan", content |-> plan.plan_text,
   vector |-> plan.embedding, embedding_model |-> EMBEDDING_MODEL,
   metadata |-> [source_id |-> plan.id, generated_at |-> plan.generated_at]]
\* Mutant of EntryRecord: every entry is stored with the fixed type 'entry'.
EntryRecord_FixedType(entry, uid) ==
  [user_id |-> uid, type |-> "entry", content |-> entry.content,
   vector |-> entry.embedding, embedding_model |-> EMBEDDING_MODEL,
   metadata |-> [source_id |-> entry.id, entry_type |-> entry.type,
                 timestamp |-> entry.timestamp]]
EntryRecord(entry, uid) ==
  [user_id |-> uid, type |-> entry.type, content |-> entry.content,
   vector |-> entry.embedding, embedding_model |-> EMBEDDING_MODEL,
   metadata |-> [source_id |-> entry.id, entry_type |-> entry.type,
                 timestamp |-> entry.timestamp]]
VectorRecord(item, uid) ==
  IF item.table = "plans" THEN PlanRecord(item.doc, uid)
  ELSE EntryRecord(item.doc, uid)

\* A field of a metadata object; undefined (here the empty string) when absent.
MetaField(m, f) == IF f \in DOMAIN m THEN m[f] ELSE ""

\* The match_vectors procedure of the store: the rows of ai_docs of one user,
\* at most match_limit of them, each as {content, metadata}.
AsContextDoc(r) == [content |-> r.content, metadata |-> r.metadata]
match_vectors(rows, match_user_id, match_limit) ==
  LET OfUser(r) == r.user_id = match_user_id
      mine == SelectSeq(rows, OfUser)
      n == IF Len(mine) < match_limit THEN Len(mine) ELSE match_limit
  IN [i \in 1..n |-> AsContextDoc(mine[i])]

\* ragCall: one context document rendered with its date.
DateOf(c) ==
  IF MetaField(c.metadata, "created_at") # "" THEN MetaField(c.metadata, "created_at")
  ELSE IF MetaField(c.metadata, "timestamp") # "" THEN MetaField(c.metadata, "timestamp")
  ELSE "unknown"
contextString(c) == c.content \o <<"\nDate: ", DateOf(c)>>
contextStrings(docs) == [i \in 1..Len(docs) |-> contextString(docs[i])]

\* Mutant of fitnessPlanPromptTemplate: the context is joined without the
\* fallback for an empty list.
fitnessPlanPromptTemplate_NoFallback(context, g, inp) ==
  <<"You are a fitness coach AI. User Goal: ">> \o g
    \o <<"User Input: ">> \o inp
    \o <<"Use the following relevant context: ">> \o Join(context, <<"\n\n">>)
    \o <<"Create a detailed fitness plan.">>

\* fitnessPlanPromptTemplate.
fitnessPlanPromptTemplate(context, g, inp) ==
  LET contextText == IF Len(context) # 0 THEN Join(context, <<"\n\n">>) ELSE NO_CONTEXT
  IN <<"You are a fitness coach AI. User Goal: ">> \o g
       \o <<"User Input: ">> \o inp
       \o <<"Use the following relevant context: ">> \o contextText
       \o <<"Create a detailed fitness plan.">>

\* What the completion endpoint may answer: the content of the first choice.
TextSegment(t) == [type |-> "text", text |-> t]
ImageSegment == [type |-> "image", text |-> Empty]
CompletionContents ==
  {<<>>,
   <<TextSegment(<<"Plan A">>), ImageSegment, TextSegment(<<"Plan B">>)>>}
ErrorStatuses == {429}

\* ragCall: the text extracted from the content of the first choice.
SegmentText(item) == IF item.type = "text" THEN item.text ELSE Empty
resultText(messageArray) ==
  Join([i \in 1..Len(messageArray) |-> SegmentText(messageArray[i])], <<"\n">>)

VARIABLES
  env,            \* process.env: which API keys are set
  pooled,         \* whether the embedding deployment answers with flat vectors
  sourceDocs,     \* the plans and entries tables: DocIds -> row
  ai_docs,        \* the ai_docs table: the VectorRecords, in insertion order
  pc,             \* per request: the await it is suspended at
  userId,         \* per request: the userId of the request
  input,          \* per request: req.body.input (Empty when absent)
  fetched,        \* per request: plans, then plans and entries, as fetched
  embeddings,     \* per request: embedDocuments' embeddings list so far
  embedded,       \* per request: updateEmbeddings' result
  k,              \* per request: the item saveEmbeddingsToDB is at
  goal,           \* per request: ragCall's goal
  queryEmbedding, \* per request: ragCall's queryEmbedding
  contextDocs,    \* per request: ragCall's contextDocs
  response,       \* per request: the HTTP response sent
  calls,          \* per request: the remote calls answered so far (history)
  inflight,       \* per request: the texts sent to the embedding provider and
                  \* not answered yet (used where a call is split in two steps)
  arrivedAfter,   \* per request: the requests already answered when it arrived
  pageEntries,    \* EntriesPage: the entries state (ids, as displayed)
  isSaving,       \* EntriesPage: the isSaving state
  pending,        \* EntriesPage: the handlers suspended at their remote call
  added,          \* EntriesPage: the entries created so far (history)
  deleted         \* EntriesPage: the entries deleted so far (history)

vars ==
  <<env, pooled, sourceDocs, ai_docs, pc, userId, input, fetched, embeddings, embedded,
    k, goal, queryEmbedding, contextDocs, response, calls, inflight, arrivedAfter,
    pageEntries, isSaving, pending, added, deleted>>

storeVars == <<sourceDocs, ai_docs>>
\* The state of the entries page of the frontend.
pageVars == <<pageEntries, isSaving, pending, added, deleted>>

\* What no step of the endpoint that takes a remote call as one step changes.
envVars == <<env, pooled, inflight, pageVars>>

\* The entries page after loadEntries has shown the user's entries.
LoadedEntries == <<1, 2>>
PageLoaded ==
  /\ pageEntries = LoadedEntries
  /\ isSaving = FALSE
  /\ pending = {}
  /\ added = {}
  /\ deleted = {}

NoResponse == [status |-> 0, error |-> "", fitnessPlan |-> Empty]

Init ==
  /\ env \in [HUGGINGFACE_API_KEY : BOOLEAN, OPEN_ROUTER_API_KEY : BOOLEAN]
  /\ pooled \in BOOLEAN
  /\ sourceDocs = [d \in DocIds |-> [ShapeOf(d) EXCEPT !.id = d, !.user_id = Owner(d)]]
  /\ ai_docs = <<>>
  /\ pc = [p \in Requests |-> "idle"]
  /\ userId = [p \in Requests |-> NoUser]
  /\ input = [p \in Requests |-> Empty]
  /\ fetched = [p \in Requests |-> <<>>]
  /\ embeddings = [p \in Requests |-> <<>>]
  /\ embedded = [p \in Requests |-> <<>>]
  /\ k = [p \in Requests |-> 1]
  /\ goal = [p \in Requests |-> Empty]
  /\ queryEmbedding = [p \in Requests |-> <<>>]
  /\ contextDocs = [p \in Requests |-> <<>>]
  /\ response = [p \in Requests |-> NoResponse]
  /\ calls = [p \in Requests |-> <<>>]
  /\ inflight = [p \in Requests |-> <<>>]
  /\ PageLoaded
  /\ arrivedAfter = [p \in Requests |-> {}]

\* ------------------------------------------------------------ bookkeeping
\* One remote call of a request: what was called, on what, and whether it
\* succeeded.
Call(op, table, id, text, ok) ==
  [op |-> op, table |-> table, id |-> id, text |-> text, ok |-> ok]
Log(p, c) == calls' = [calls EXCEPT ![p] = Append(@, c)]

\* A thrown value: an Error made with new Error(message), or the error object
\* of a store response, which the client library hands over either as an
\* Error instance or as a plain object.
UNKNOWN_ERROR == <<"Unknown error">>
NewError(message) == [isError |-> TRUE, message |-> message]
PostgrestErrors(message) == {[isError |-> b, message |-> message] : b \in BOOLEAN}

\* error instanceof Error ? error.message : 'Unknown error'.
MessageOf(thrown) == IF thrown.isError THEN thrown.message ELSE UNKNOWN_ERROR

\* Mutant of Respond500: the catch answers with status 502.
Respond500_BadGateway(p, thrown) ==
  /\ pc' = [pc EXCEPT ![p] = "done"]
  /\ response' = [response EXCEPT ![p] =
                    [status |-> 502, error |-> MessageOf(thrown), fitnessPlan |-> Empty]]

\* The catch of the endpoint: HTTP 500 with the message of what was thrown.
Respond500(p, thrown) ==
  /\ pc' = [pc EXCEPT ![p] = "done"]
  /\ response' = [response EXCEPT ![p] =
                    [status |-> 500, error |-> MessageOf(thrown), fitnessPlan |-> Empty]]

Goto(p, label) ==
  /\ pc' = [pc EXCEPT ![p] = label]
  /\ response' = response

\* The rows of a table that are not embedded yet, in id order.
RECURSIVE RowsFrom(_, _, _)
RowsFrom(rows, table, d) ==
  IF d > MaxDocs THEN <<>>
  ELSE (IF rows[d].table = table /\ rows[d].is_embedded = FALSE
        THEN <<rows[d]>> ELSE <<>>) \o RowsFrom(rows, table, d + 1)
\* Mutant of SelectUnembedded: the select has no is_embedded filter.
SelectUnembedded_All(rows, table) ==
  LET OfTable(row) == row.table = table
  IN SelectSeq([d \in 1..MaxDocs |-> rows[d]], OfTable)
SelectUnembedded(rows, table) == RowsFrom(rows, table, 1)

\* Mutant of UpdateFlag: the update addresses the other table, where no row
\* has that id.
UpdateFlag_OtherTable(rows, table, id) ==
  [d \in DocIds |->
     IF rows[d].table # table /\ rows[d].id = id
     THEN [rows[d] EXCEPT !.is_embedded = TRUE] ELSE rows[d]]

\* Mutant of UpdateFlag: the update inverts the flag of the row.
UpdateFlag_Toggle(rows, table, id) ==
  [d \in DocIds |->
     IF rows[d].table = table /\ rows[d].id = id
     THEN [rows[d] EXCEPT !.is_embedded = ~@] ELSE rows[d]]

\* update({is_embedded: true}).eq('id', id) on a table.
UpdateFlag(rows, table, id) ==
  [d \in DocIds |->
     IF rows[d].table = table /\ rows[d].id = id
     THEN [rows[d] EXCEPT !.is_embedded = TRUE] ELSE rows[d]]

\* ragCall's first lines: the completion key is checked before any call.
EnterRagCall(p) ==
  IF ~env.OPEN_ROUTER_API_KEY
  THEN Respond500(p, NewError(<<"OPEN_ROUTER_API_KEY is not set">>))
  ELSE Goto(p, "fetchGoal")

\* updateEmbeddings has returned docs: saveEmbeddingsToDB starts on them, and
\* with nothing to save the endpoint goes on to ragCall.
EnterSave(p, docs) ==
  /\ embedded' = [embedded EXCEPT ![p] = docs]
  /\ embeddings' = [embeddings EXCEPT ![p] = <<>>]
  /\ IF SaveItems(docs) = <<>> THEN EnterRagCall(p) ELSE Goto(p, "updateFlag")

\* The requests a client may send: userId and body.input, either of which
\* may be missing.
RequestInputs ==
  {[userId |-> "u1", input |-> <<"today">>],
   [userId |-> "u2", input |-> Empty],
   [userId |-> NoUser, input |-> Empty]}

\* ------------------------------------------------------------------ actions
\* Mutant of Receive: the userId check is missing, every request goes on to
\* fetch the documents.
Receive_NoCheck(p) ==
  /\ pc[p] = "idle"
  /\ arrivedAfter' = [arrivedAfter EXCEPT ![p] = {q \in Requests : pc[q] = "done"}]
  /\ \E req \in RequestInputs :
       /\ userId' = [userId EXCEPT ![p] = req.userId]
       /\ input' = [input EXCEPT ![p] = req.input]
       /\ Goto(p, "fetchPlans")
  /\ UNCHANGED <<envVars, storeVars, fetched, embeddings, embedded, k, goal,
                 queryEmbedding, contextDocs, calls>>

\* Mutant of Receive: for a missing userId the handler returns without
\* sending a response.
Receive_NoReply(p) ==
  /\ pc[p] = "idle"
  /\ arrivedAfter' = [arrivedAfter EXCEPT ![p] = {q \in Requests : pc[q] = "done"}]
  /\ \E req \in RequestInputs :
       /\ userId' = [userId EXCEPT ![p] = req.userId]
       /\ input' = [input EXCEPT ![p] = req.input]
       /\ IF req.userId = NoUser
          THEN /\ pc' = [pc EXCEPT ![p] = "done"]
               /\ response' = response
          ELSE Goto(p, "fetchPlans")
  /\ UNCHANGED <<envVars, storeVars, fetched, embeddings, embedded, k, goal,
                 queryEmbedding, contextDocs, calls>>

\* A request arrives; without a userId it is answered 400 at once.
Receive(p) ==
  /\ pc[p] = "idle"
  /\ arrivedAfter' = [arrivedAfter EXCEPT ![p] = {q \in Requests : pc[q] = "done"}]
  /\ \E req \in RequestInputs :
       /\ userId' = [userId EXCEPT ![p] = req.userId]
       /\ input' = [input EXCEPT ![p] = req.input]
       /\ IF req.userId = NoUser
          THEN /\ pc' = [pc EXCEPT ![p] = "done"]
               /\ response' = [response EXCEPT ![p] =
                    [status |-> 400, error |-> <<"userId is required">>,
                     fitnessPlan |-> Empty]]
          ELSE Goto(p, "fetchPlans")
  /\ UNCHANGED <<envVars, storeVars, fetched, embeddings, embedded, k, goal,
                 queryEmbedding, contextDocs, calls>>

\* fetchUnembeddedDocuments, first select.
FetchPlans(p) ==
  /\ pc[p] = "fetchPlans"
  /\ \E ok \in BOOLEAN :
       /\ Log(p, Call("select", "plans", 0, Empty, ok))
       /\ IF ok
          THEN /\ fetched' = [fetched EXCEPT ![p] = SelectUnembedded(sourceDocs, "plans")]
               /\ Goto(p, "fetchEntries")
          ELSE /\ fetched' = fetched
               /\ (\E e \in PostgrestErrors(<<"plansError">>) : Respond500(p, e))
  /\ UNCHANGED <<envVars, arrivedAfter, storeVars, userId, input, embeddings, embedded, k, goal,
                 queryEmbedding, contextDocs>>

\* fetchUnembeddedDocuments, second select; then updateEmbeddings up to its
\* first request to the embedding provider.
FetchEntries(p) ==
  /\ pc[p] = "fetchEntries"
  /\ \E ok \in BOOLEAN :
       /\ Log(p, Call("select", "entries", 0, Empty, ok))
       /\ IF ~ok
          THEN /\ (\E e \in PostgrestErrors(<<"entriesError">>) : Respond500(p, e))
               /\ UNCHANGED <<fetched, embeddings, embedded>>
          ELSE LET allDocuments == fetched[p] \o SelectUnembedded(sourceDocs, "entries")
               IN /\ fetched' = [fetched EXCEPT ![p] = allDocuments]
                  /\ IF ~env.HUGGINGFACE_API_KEY
                     THEN /\ Respond500(p, NewError(<<"HUGGINGFACE_API_KEY is not set">>))
                          /\ UNCHANGED <<embeddings, embedded>>
                     ELSE IF allDocuments = <<>>
                     THEN EnterSave(p, AttachEmbeddings(allDocuments, <<>>))
                     ELSE Goto(p, "embedDocuments") /\ UNCHANGED <<embeddings, embedded>>
  /\ UNCHANGED <<envVars, arrivedAfter, storeVars, userId, input, k, goal, queryEmbedding, contextDocs>>

\* Mutant of EmbedDocument: a failed request ends the loop, and the documents
\* embedded so far are returned and saved.
EmbedDocument_Partial(p) ==
  /\ pc[p] = "embedDocuments"
  /\ LET texts == textsOf(fetched[p])
         doc == texts[Len(embeddings[p]) + 1]
         sofar == SubSeq(fetched[p], 1, Len(embeddings[p]))
     IN \/ /\ Log(p, Call("featureExtraction", "", 0, doc, FALSE))
           /\ EnterSave(p, AttachEmbeddings(sofar, embeddings[p]))
        \/ \E res \in HFAnswers(pooled, doc) :
             /\ Log(p, Call("featureExtraction", "", 0, doc, TRUE))
             /\ IF ~res.isArray
                THEN /\ Respond500(p, NewError(<<"HF API response is not an array">>))
                     /\ UNCHANGED <<embeddings, embedded>>
                ELSE LET all == Append(embeddings[p], flatEmbedding(res))
                     IN IF Len(all) = Len(texts)
                        THEN EnterSave(p, AttachEmbeddings(fetched[p], all))
                        ELSE /\ embeddings' = [embeddings EXCEPT ![p] = all]
                             /\ embedded' = embedded
                             /\ Goto(p, "embedDocuments")
  /\ UNCHANGED <<envVars, arrivedAfter, storeVars, userId, input, fetched, k, goal,
                 queryEmbedding, contextDocs>>

\* Mutant of EmbedDocument: a failed request is repeated once before the
\* error is thrown.
EmbedDocument_Retry(p) ==
  /\ pc[p] = "embedDocuments"
  /\ LET texts == textsOf(fetched[p])
         doc == texts[Len(embeddings[p]) + 1]
     IN \/ /\ Log(p, Call("featureExtraction", "", 0, doc, FALSE))
           /\ IF calls[p][Len(calls[p])].ok
              THEN Goto(p, "embedDocuments")
              ELSE Respond500(p, NewError(<<"featureExtraction failed">>))
           /\ UNCHANGED <<embeddings, embedded>>
        \/ \E res \in HFAnswers(pooled, doc) :
             /\ Log(p, Call("featureExtraction", "", 0, doc, TRUE))
             /\ IF ~res.isArray
                THEN /\ Respond500(p, NewError(<<"HF API response is not an array">>))
                     /\ UNCHANGED <<embeddings, embedded>>
                ELSE LET all == Append(embeddings[p], flatEmbedding(res))
                     IN IF Len(all) = Len(texts)
                        THEN EnterSave(p, AttachEmbeddings(fetched[p], all))
                        ELSE /\ embeddings' = [embeddings EXCEPT ![p] = all]
                             /\ embedded' = embedded
                             /\ Goto(p, "embedDocuments")
  /\ UNCHANGED <<envVars, arrivedAfter, storeVars, userId, input, fetched, k, goal,
                 queryEmbedding, contextDocs>>

\* embedDocuments: one request of the loop, for the next text of the batch.
EmbedDocument(p) ==
  /\ pc[p] = "embedDocuments"
  /\ LET texts == textsOf(fetched[p])
         doc == texts[Len(embeddings[p]) + 1]
     IN \/ /\ Log(p, Call("featureExtraction", "", 0, doc, FALSE))
           /\ Respond500(p, NewError(<<"featureExtraction failed">>))
           /\ UNCHANGED <<embeddings, embedded>>
        \/ \E res \in HFAnswers(pooled, doc) :
             /\ Log(p, Call("featureExtraction", "", 0, doc, TRUE))
             /\ IF ~res.isArray
                THEN /\ Respond500(p, NewError(<<"HF API response is not an array">>))
                     /\ UNCHANGED <<embeddings, embedded>>
                ELSE LET all == Append(embeddings[p], flatEmbedding(res))
                     IN IF Len(all) = Len(texts)
                        THEN EnterSave(p, AttachEmbeddings(fetched[p], all))
                        ELSE /\ embeddings' = [embeddings EXCEPT ![p] = all]
                             /\ embedded' = embedded
                             /\ Goto(p, "embedDocuments")
  /\ UNCHANGED <<envVars, arrivedAfter, storeVars, userId, input, fetched, k, goal,
                 queryEmbedding, contextDocs>>

\* Mutant of SetFlag: the error of the update is not checked, the insert
\* follows in any case.
SetFlag_Unchecked(p) ==
  /\ pc[p] = "updateFlag"
  /\ LET item == SaveItems(embedded[p])[k[p]]
     IN \E ok \in BOOLEAN :
          /\ Log(p, Call("update", item.table, item.doc.id, Empty, ok))
          /\ sourceDocs' = IF ok THEN UpdateFlag(sourceDocs, item.table, item.doc.id)
                           ELSE sourceDocs
          /\ Goto(p, "insertDoc")
  /\ UNCHANGED <<envVars, arrivedAfter, ai_docs, userId, input, fetched, embeddings,
                 embedded, k, goal, queryEmbedding, contextDocs>>

\* saveEmbeddingsToDB: the flag update of the current item.
SetFlag(p) ==
  /\ pc[p] = "updateFlag"
  /\ LET item == SaveItems(embedded[p])[k[p]]
     IN \E ok \in BOOLEAN :
          /\ Log(p, Call("update", item.table, item.doc.id, Empty, ok))
          /\ IF ok
             THEN /\ sourceDocs' = UpdateFlag(sourceDocs, item.table, item.doc.id)
                  /\ Goto(p, "insertDoc")
             ELSE /\ sourceDocs' = sourceDocs
                  /\ (\E e \in PostgrestErrors(<<"updateError">>) : Respond500(p, e))
  /\ UNCHANGED <<envVars, arrivedAfter, ai_docs, userId, input, fetched, embeddings, embedded, k,
                 goal, queryEmbedding, contextDocs>>

\* Mutant of InsertDoc: the error of the insert is not checked, the loop goes
\* on to the next item and then to ragCall.
InsertDoc_Unchecked(p) ==
  /\ pc[p] = "insertDoc"
  /\ LET items == SaveItems(embedded[p])
         item == items[k[p]]
     IN \E ok \in BOOLEAN :
          /\ Log(p, Call("insert", "ai_docs", item.doc.id, Empty, ok))
          /\ ai_docs' = IF ok THEN Append(ai_docs, VectorRecord(item, userId[p]))
                        ELSE ai_docs
          /\ IF k[p] = Len(items)
             THEN k' = [k EXCEPT ![p] = 1] /\ EnterRagCall(p)
             ELSE k' = [k EXCEPT ![p] = @ + 1] /\ Goto(p, "updateFlag")
  /\ UNCHANGED <<envVars, arrivedAfter, sourceDocs, userId, input, fetched, embeddings,
                 embedded, goal, queryEmbedding, contextDocs>>

\* saveEmbeddingsToDB: the insert of the current item's VectorRecord; after
\* the last item the endpoint goes on to ragCall.
InsertDoc(p) ==
  /\ pc[p] = "insertDoc"
  /\ LET items == SaveItems(embedded[p])
         item == items[k[p]]
     IN \E ok \in BOOLEAN :
          /\ Log(p, Call("insert", "ai_docs", item.doc.id, Empty, ok))
          /\ IF ok
             THEN /\ ai_docs' = Append(ai_docs, VectorRecord(item, userId[p]))
                  /\ IF k[p] = Len(items)
                     THEN k' = [k EXCEPT ![p] = 1] /\ EnterRagCall(p)
                     ELSE k' = [k EXCEPT ![p] = @ + 1] /\ Goto(p, "updateFlag")
             ELSE /\ UNCHANGED <<ai_docs, k>>
                  /\ (\E e \in PostgrestErrors(<<"docError">>) : Respond500(p, e))
  /\ UNCHANGED <<envVars, arrivedAfter, sourceDocs, userId, input, fetched, embeddings, embedded,
                 goal, queryEmbedding, contextDocs>>

\* The input ragCall is given: req.body.input || 'Create a new fitness plan'.
RagInput(p) == OrElse(input[p], DEFAULT_INPUT)

\* Mutant of FetchUserGoal: the search is started right after the goal
\* lookup, without the query embedding.
FetchUserGoal_SkipEmbedding(p) ==
  /\ pc[p] = "fetchGoal"
  /\ \E ok \in BOOLEAN :
       /\ Log(p, Call("select", "app_users", 0, Empty, ok))
       /\ goal' = [goal EXCEPT ![p] =
                     IF ~ok THEN Empty ELSE OrElse(StoredGoal(userId[p]), Empty)]
  /\ Goto(p, "fetchContext")
  /\ fetched' = [fetched EXCEPT ![p] = <<>>]
  /\ embedded' = [embedded EXCEPT ![p] = <<>>]
  /\ UNCHANGED <<envVars, arrivedAfter, storeVars, userId, input, embeddings, k,
                 queryEmbedding, contextDocs>>

\* fetchUserGoal: an error, or no row, gives the empty string. From here on
\* the handler never reads allDocuments or embeddedDocuments again; they are
\* dropped.
FetchUserGoal(p) ==
  /\ pc[p] = "fetchGoal"
  /\ \E ok \in BOOLEAN :
       /\ Log(p, Call("select", "app_users", 0, Empty, ok))
       /\ goal' = [goal EXCEPT ![p] =
                     IF ~ok THEN Empty ELSE OrElse(StoredGoal(userId[p]), Empty)]
  /\ Goto(p, "embedQuery")
  /\ fetched' = [fetched EXCEPT ![p] = <<>>]
  /\ embedded' = [embedded EXCEPT ![p] = <<>>]
  /\ UNCHANGED <<envVars, arrivedAfter, storeVars, userId, input, embeddings, k, queryEmbedding,
                 contextDocs>>

\* Mutant of EmbedQuery: a failed embedding is caught and ragCall goes on
\* with an empty query vector.
EmbedQuery_Swallow(p) ==
  /\ pc[p] = "embedQuery"
  /\ LET doc == RagInput(p)
     IN \/ /\ Log(p, Call("featureExtraction", "", 0, doc, FALSE))
           /\ Goto(p, "fetchContext")
           /\ UNCHANGED queryEmbedding
        \/ \E res \in HFAnswers(pooled, doc) :
             /\ Log(p, Call("featureExtraction", "", 0, doc, TRUE))
             /\ IF ~res.isArray
                THEN /\ Respond500(p, NewError(<<"HF API response is not an array">>))
                     /\ UNCHANGED queryEmbedding
                ELSE /\ queryEmbedding' =
                          [queryEmbedding EXCEPT ![p] = <<flatEmbedding(res)>>[1]]
                     /\ Goto(p, "fetchContext")
  /\ UNCHANGED <<envVars, arrivedAfter, storeVars, userId, input, fetched, embeddings,
                 embedded, k, goal, contextDocs>>

\* embedQuery: embedDocuments on the one-element list [input].
EmbedQuery(p) ==
  /\ pc[p] = "embedQuery"
  /\ LET doc == RagInput(p)
     IN \/ /\ Log(p, Call("featureExtraction", "", 0, doc, FALSE))
           /\ Respond500(p, NewError(<<"featureExtraction failed">>))
           /\ UNCHANGED queryEmbedding
        \/ \E res \in HFAnswers(pooled, doc) :
             /\ Log(p, Call("featureExtraction", "", 0, doc, TRUE))
             /\ IF ~res.isArray
                THEN /\ Respond500(p, NewError(<<"HF API response is not an array">>))
                     /\ UNCHANGED queryEmbedding
                ELSE /\ queryEmbedding' =
                          [queryEmbedding EXCEPT ![p] = <<flatEmbedding(res)>>[1]]
                     /\ Goto(p, "fetchContext")
  /\ UNCHANGED <<envVars, arrivedAfter, storeVars, userId, input, fetched, embeddings, embedded, k,
                 goal, contextDocs>>

\* Mutant of FetchRagContext: the error of the search is thrown.
FetchRagContext_Throws(p) ==
  /\ pc[p] = "fetchContext"
  /\ \E ok \in BOOLEAN :
       /\ Log(p, Call("rpc", "match_vectors", 0, Empty, ok))
       /\ IF ok
          THEN /\ contextDocs' = [contextDocs EXCEPT ![p] =
                                    match_vectors(ai_docs, userId[p], topK)]
               /\ Goto(p, "completion")
          ELSE /\ contextDocs' = contextDocs
               /\ Respond500(p, NewError(<<"match_vectors error">>))
  /\ UNCHANGED <<envVars, arrivedAfter, storeVars, userId, input, fetched, embeddings,
                 embedded, k, goal, queryEmbedding>>

\* fetchRagContext: an error of the search gives the empty list.
FetchRagContext(p) ==
  /\ pc[p] = "fetchContext"
  /\ \E ok \in BOOLEAN :
       /\ Log(p, Call("rpc", "match_vectors", 0, Empty, ok))
       /\ contextDocs' = [contextDocs EXCEPT ![p] =
                            IF ~ok THEN <<>>
                            ELSE match_vectors(ai_docs, userId[p], topK)]
  /\ Goto(p, "completion")
  /\ UNCHANGED <<envVars, arrivedAfter, storeVars, userId, input, fetched, embeddings, embedded, k,
                 goal, queryEmbedding>>

\* ragCall: the prompt it sends.
finalPrompt(p) ==
  fitnessPlanPromptTemplate(contextStrings(contextDocs[p]), goal[p], RagInput(p))

\* Mutant of Completion: a non-success status is retried once before the
\* error is thrown.
Completion_Retry(p) ==
  /\ pc[p] = "completion"
  /\ \/ /\ Log(p, Call("completion", COMPLETION_MODEL, 0, finalPrompt(p), FALSE))
        /\ pc' = [pc EXCEPT ![p] = "done"]
        /\ response' = [response EXCEPT ![p] =
                          [status |-> 500, error |-> <<"fetch failed">>,
                           fitnessPlan |-> Empty]]
     \/ \E status \in ErrorStatuses :
          /\ Log(p, Call("completion", COMPLETION_MODEL, status, finalPrompt(p), FALSE))
          /\ IF \A i \in DOMAIN calls[p] : calls[p][i].op # "completion"
             THEN UNCHANGED <<pc, response>>
             ELSE /\ pc' = [pc EXCEPT ![p] = "done"]
                  /\ response' = [response EXCEPT ![p] =
                       [status |-> 500,
                        error |-> <<"OpenRouter API error: ", ToString(status), " ", "errText">>,
                        fitnessPlan |-> Empty]]
     \/ \E content \in CompletionContents :
          /\ Log(p, Call("completion", COMPLETION_MODEL, 200, finalPrompt(p), TRUE))
          /\ pc' = [pc EXCEPT ![p] = "done"]
          /\ response' = [response EXCEPT ![p] =
                            [status |-> 200, error |-> Empty,
                             fitnessPlan |-> resultText(content)]]
  /\ UNCHANGED <<envVars, arrivedAfter, storeVars, userId, input, fetched, embeddings,
                 embedded, k, goal, queryEmbedding, contextDocs>>

\* Mutant of Completion: when the completion request fails, the VectorRecord
\* inserted last is deleted again.
Completion_Unwind(p) ==
  /\ pc[p] = "completion"
  /\ pc' = [pc EXCEPT ![p] = "done"]
  /\ \/ /\ Log(p, Call("completion", COMPLETION_MODEL, 0, finalPrompt(p), FALSE))
        /\ ai_docs' = SubSeq(ai_docs, 1, Len(ai_docs) - 1)
        /\ response' = [response EXCEPT ![p] =
                          [status |-> 500, error |-> <<"fetch failed">>,
                           fitnessPlan |-> Empty]]
     \/ \E status \in ErrorStatuses :
          /\ Log(p, Call("completion", COMPLETION_MODEL, status, finalPrompt(p), FALSE))
          /\ ai_docs' = SubSeq(ai_docs, 1, Len(ai_docs) - 1)
          /\ response' = [response EXCEPT ![p] =
                            [status |-> 500,
                             error |-> <<"OpenRouter API error: ", ToString(status), " ", "errText">>,
                             fitnessPlan |-> Empty]]
     \/ \E content \in CompletionContents :
          /\ Log(p, Call("completion", COMPLETION_MODEL, 200, finalPrompt(p), TRUE))
          /\ ai_docs' = ai_docs
          /\ response' = [response EXCEPT ![p] =
                            [status |-> 200, error |-> Empty,
                             fitnessPlan |-> resultText(content)]]
  /\ UNCHANGED <<envVars, arrivedAfter, sourceDocs, userId, input, fetched, embeddings,
                 embedded, k, goal, queryEmbedding, contextDocs>>

\* ragCall: the completion request, and the response of the endpoint.
Completion(p) ==
  /\ pc[p] = "completion"
  /\ pc' = [pc EXCEPT ![p] = "done"]
  /\ \/ /\ Log(p, Call("completion", COMPLETION_MODEL, 0, finalPrompt(p), FALSE))
        /\ response' = [response EXCEPT ![p] =
                          [status |-> 500, error |-> <<"fetch failed">>,
                           fitnessPlan |-> Empty]]
     \/ \E status \in ErrorStatuses :
          /\ Log(p, Call("completion", COMPLETION_MODEL, status, finalPrompt(p), FALSE))
          /\ response' = [response EXCEPT ![p] =
                            [status |-> 500,
                             error |-> <<"OpenRouter API error: ", ToString(status), " ", "errText">>,
                             fitnessPlan |-> Empty]]
     \/ \E content \in CompletionContents :
          /\ Log(p, Call("completion", COMPLETION_MODEL, 200, finalPrompt(p), TRUE))
          /\ response' = [response EXCEPT ![p] =
                            [status |-> 200, error |-> Empty,
                             fitnessPlan |-> resultText(content)]]
  /\ UNCHANGED <<envVars, arrivedAfter, storeVars, userId, input, fetched, embeddings, embedded, k,
                 goal, queryEmbedding, contextDocs>>

Step(p) ==
  \/ Receive(p)
  \/ FetchPlans(p)
  \/ FetchEntries(p)
  \/ EmbedDocument(p)
  \/ SetFlag(p)
  \/ InsertDoc(p)
  \/ FetchUserGoal(p)
  \/ EmbedQuery(p)
  \/ FetchRagContext(p)
  \/ Completion(p)

Next == \E p \in Requests : Step(p)

Spec == Init /\ [][Next]_vars

\* Every external call of a received request eventually resolves or rejects:
\* a handler suspended at an await is eventually resumed.
Resume(p) ==
  \/ FetchPlans(p)
  \/ FetchEntries(p)
  \/ EmbedDocument(p)
  \/ SetFlag(p)
  \/ InsertDoc(p)
  \/ FetchUserGoal(p)
  \/ EmbedQuery(p)
  \/ FetchRagContext(p)
  \/ Completion(p)

FairSpec == Spec /\ \A p \in Requests : WF_vars(Resume(p))

\* --------------------------------------- one request, a document of any shape
\* One request against a store whose only unembedded row is document 1, a
\* plan or an entry with any combination of empty, blank and non-empty text
\* fields.
TitleValues == {Empty, <<" ">>, <<"T">>}
NameValues == {Empty, <<"N">>}
DescriptionValues == {Empty, <<"d">>}
ContentValues == {Empty, <<" ">>, <<"c">>}
NotesValues == {Empty, <<"n">>}
TextDocs ==
  {[BlankDoc EXCEPT !.id = 1, !.type = "workout_note", !.timestamp = "t1",
                    !.title = t, !.name = n, !.description = d, !.content = c,
                    !.notes = o] :
     t \in TitleValues, n \in NameValues, d \in DescriptionValues,
     c \in ContentValues, o \in NotesValues}
    \cup {[PlanShape EXCEPT !.id = 1, !.title = t] : t \in TitleValues}

TextInit ==
  /\ env \in [HUGGINGFACE_API_KEY : BOOLEAN, OPEN_ROUTER_API_KEY : BOOLEAN]
  /\ pooled \in BOOLEAN
  /\ \E doc \in TextDocs :
       sourceDocs = [d \in DocIds |->
                      IF d = 1 THEN doc
                      ELSE [ShapeOf(d) EXCEPT !.id = d, !.user_id = Owner(d),
                                              !.is_embedded = TRUE]]
  /\ ai_docs = <<>>
  /\ pc = [p \in Requests |-> "idle"]
  /\ userId = [p \in Requests |-> NoUser]
  /\ input = [p \in Requests |-> Empty]
  /\ fetched = [p \in Requests |-> <<>>]
  /\ embeddings = [p \in Requests |-> <<>>]
  /\ embedded = [p \in Requests |-> <<>>]
  /\ k = [p \in Requests |-> 1]
  /\ goal = [p \in Requests |-> Empty]
  /\ queryEmbedding = [p \in Requests |-> <<>>]
  /\ contextDocs = [p \in Requests |-> <<>>]
  /\ response = [p \in Requests |-> NoResponse]
  /\ calls = [p \in Requests |-> <<>>]
  /\ inflight = [p \in Requests |-> <<>>]
  /\ PageLoaded
  /\ arrivedAfter = [p \in Requests |-> {}]

TextNext == Step("r1")

TextSpec == TextInit /\ [][TextNext]_vars

\* ------------------------------------------------------ ragCall on its own
\* ragCall is exported by aiService: a caller invokes it directly, without
\* the fetch, embedding and persistence stages of the endpoint before it.
RagCallInputs == {req \in RequestInputs : req.userId # NoUser}

RagCallDirect(p) ==
  /\ pc[p] = "idle"
  /\ arrivedAfter' = [arrivedAfter EXCEPT ![p] = {q \in Requests : pc[q] = "done"}]
  /\ \E req \in RagCallInputs :
       /\ userId' = [userId EXCEPT ![p] = req.userId]
       /\ input' = [input EXCEPT ![p] = req.input]
  /\ EnterRagCall(p)
  /\ UNCHANGED <<envVars, storeVars, fetched, embeddings, embedded, k, goal,
                 queryEmbedding, contextDocs, calls>>

RagStep(p) ==
  \/ RagCallDirect(p)
  \/ FetchUserGoal(p)
  \/ EmbedQuery(p)
  \/ FetchRagContext(p)
  \/ Completion(p)

RagNext == \E p \in Requests : RagStep(p)

RagSpec == Init /\ [][RagNext]_vars

\* ------------------------------------- embedDocuments, request and answer
\* The loop of embedDocuments with each featureExtraction call in two steps:
\* the request is sent, and later its answer arrives and the loop body runs
\* to the next await.

\* Mutant of SendEmbedding: the requests are sent without awaiting the
\* answer of the previous one.
SendEmbedding_NoAwait(p) ==
  /\ pc[p] = "embedDocuments"
  /\ LET texts == textsOf(fetched[p])
         next == Len(embeddings[p]) + Len(inflight[p]) + 1
     IN /\ next <= Len(texts)
        /\ inflight' = [inflight EXCEPT ![p] = Append(@, texts[next])]
  /\ UNCHANGED <<env, pooled, pageVars, storeVars, pc, userId, input, fetched,
                 embeddings, embedded, k, goal, queryEmbedding, contextDocs, response,
                 calls, arrivedAfter>>

\* this.client.featureExtraction({inputs: doc}) is called for the next text.
SendEmbedding(p) ==
  /\ pc[p] = "embedDocuments"
  /\ inflight[p] = <<>>
  /\ LET texts == textsOf(fetched[p])
         next == Len(embeddings[p]) + 1
     IN inflight' = [inflight EXCEPT ![p] = <<texts[next]>>]
  /\ UNCHANGED <<env, pooled, pageVars, storeVars, pc, userId, input, fetched,
                 embeddings, embedded, k, goal, queryEmbedding, contextDocs, response,
                 calls, arrivedAfter>>

\* The await resumes: the call rejected, or res is checked, flattened and
\* pushed, and the loop goes on or embedDocuments returns.
ReceiveEmbedding(p) ==
  /\ pc[p] = "embedDocuments"
  /\ inflight[p] # <<>>
  /\ inflight' = [inflight EXCEPT ![p] = Tail(@)]
  /\ LET texts == textsOf(fetched[p])
         doc == Head(inflight[p])
     IN \/ /\ Log(p, Call("featureExtraction", "", 0, doc, FALSE))
           /\ Respond500(p, NewError(<<"featureExtraction failed">>))
           /\ UNCHANGED <<embeddings, embedded>>
        \/ \E res \in HFAnswers(pooled, doc) :
             /\ Log(p, Call("featureExtraction", "", 0, doc, TRUE))
             /\ IF ~res.isArray
                THEN /\ Respond500(p, NewError(<<"HF API response is not an array">>))
                     /\ UNCHANGED <<embeddings, embedded>>
                ELSE LET all == Append(embeddings[p], flatEmbedding(res))
                     IN IF Len(all) = Len(texts)
                        THEN EnterSave(p, AttachEmbeddings(fetched[p], all))
                        ELSE /\ embeddings' = [embeddings EXCEPT ![p] = all]
                             /\ embedded' = embedded
                             /\ Goto(p, "embedDocuments")
  /\ UNCHANGED <<env, pooled, pageVars, arrivedAfter, storeVars, userId, input,
                 fetched, k, goal, queryEmbedding, contextDocs>>

EmbedStep(p) ==
  \/ Receive(p)
  \/ FetchPlans(p)
  \/ FetchEntries(p)
  \/ SendEmbedding(p)
  \/ ReceiveEmbedding(p)

EmbedNext == \E p \in Requests : EmbedStep(p)

EmbedSpec == Init /\ [][EmbedNext]_vars

\* ------------------------------------------------------------ EntriesPage
\* The add and delete handlers of the entries page. A handler reads the
\* entries state of the render in which it was started, awaits its remote
\* call, and then sets the entries state from what it read.
pipelineVars ==
  <<env, pooled, inflight, sourceDocs, ai_docs, pc, userId, input, fetched, embeddings,
    embedded, k, goal, queryEmbedding, contextDocs, response, calls, arrivedAfter>>

\* The id the server gives the next entry created.
NextEntryId == Len(LoadedEntries) + Cardinality(added) + Cardinality(
                 {h \in pending : h.kind = "add"}) + 1

\* entries.filter((e) => e.id !== id)
FilterOut(list, id) == LET Keep(e) == e # id IN SelectSeq(list, Keep)

\* handleAddEntry up to its await: isSaving is set and createEntry is called.
StartAdd ==
  /\ ~isSaving
  /\ Cardinality(added) + Cardinality({h \in pending : h.kind = "add"}) < MaxAdds
  /\ isSaving' = TRUE
  /\ pending' = pending \cup {[kind |-> "add", id |-> NextEntryId, entries |-> pageEntries]}
  /\ UNCHANGED <<pageEntries, added, deleted, pipelineVars>>

\* handleAddEntry after createEntry resolved: setEntries([newEntry, ...entries]).
FinishAdd(h) ==
  /\ h \in pending /\ h.kind = "add"
  /\ pageEntries' = <<h.id>> \o h.entries
  /\ isSaving' = FALSE
  /\ pending' = pending \ {h}
  /\ added' = added \cup {h.id}
  /\ UNCHANGED <<deleted, pipelineVars>>

\* handleDeleteEntry(id) up to its await, for an entry on display.
StartDelete(id) ==
  /\ \E i \in DOMAIN pageEntries : pageEntries[i] = id
  /\ \A h \in pending : ~(h.kind = "delete" /\ h.id = id)
  /\ pending' = pending \cup {[kind |-> "delete", id |-> id, entries |-> pageEntries]}
  /\ UNCHANGED <<pageEntries, isSaving, added, deleted, pipelineVars>>

\* handleDeleteEntry after deleteEntry resolved:
\* setEntries(entries.filter((e) => e.id !== id)).
FinishDelete(h) ==
  /\ h \in pending /\ h.kind = "delete"
  /\ pageEntries' = FilterOut(h.entries, h.id)
  /\ pending' = pending \ {h}
  /\ deleted' = deleted \cup {h.id}
  /\ UNCHANGED <<isSaving, added, pipelineVars>>

EntryIds == 1..(Len(LoadedEntries) + MaxAdds)

PageNext ==
  \/ StartAdd
  \/ \E h \in pending : FinishAdd(h)
  \/ \E id \in EntryIds : StartDelete(id)
  \/ \E h \in pending : FinishDelete(h)

PageInit ==
  /\ Init
  /\ env = [HUGGINGFACE_API_KEY |-> TRUE, OPEN_ROUTER_API_KEY |-> TRUE]
  /\ pooled = TRUE

PageSpec == PageInit /\ [][PageNext]_vars

\* ------------------------------------------------------- reading the state
\* The VectorRecords of the store that refer to source document d.
RecordsOf(d) == {i \in DOMAIN ai_docs : ai_docs[i].metadata.source_id = d}

\* The positions of calls[p] that are store writes / of one kind.
IsWrite(c) == c.op \in {"update", "insert"}
CallsOf(p, op) == {i \in DOMAIN calls[p] : calls[p][i].op = op}
WritesOf(p) == {i \in DOMAIN calls[p] : IsWrite(calls[p][i])}
FailedWritesOf(p) == {i \in WritesOf(p) : ~calls[p][i].ok}
AllCallsOk(p) == \A i \in DOMAIN calls[p] : calls[p][i].ok

\* saveEmbeddingsToDB of request p has returned normally.
SaveReturned(p) ==
  \/ pc[p] = "fetchGoal"
  \/ pc[p] = "done" /\ response[p].error = <<"OPEN_ROUTER_API_KEY is not set">>

\* ------------------------------------------------------------------ claims

\* C1: every VectorRecord in the store carries the user_id of the owner of
\* the source document it was made from, so that the search scoped to a user
\* returns only that user's documents. The code stamps the requesting user
\* on every unembedded document of every user.
C1_RecordsCarryOwner ==
  \A i \in DOMAIN ai_docs :
    ai_docs[i].user_id = sourceDocs[ai_docs[i].metadata.source_id].user_id

\* C2: when one request alone has run fetch, updateEmbeddings and
\* saveEmbeddingsToDB with every remote call succeeding, every document it
\* fetched (whatever text fields it carries) has exactly one VectorRecord and
\* is flagged embedded. The code drops a document with neither plan_text nor
\* content.
C2_RoundTrip ==
  \A p \in Requests :
    (/\ pc[p] = "fetchGoal"
     /\ AllCallsOk(p)
     /\ \A q \in Requests \ {p} : pc[q] = "idle")
    => \A i \in DOMAIN fetched[p] :
         /\ Cardinality(RecordsOf(fetched[p][i].id)) = 1
         /\ sourceDocs[fetched[p][i].id].is_embedded

\* C3: under every interleaving of the requests the store never holds more
\* than one VectorRecord for the same source document. Two requests that
\* both fetch a document before either flags it both insert a record.
C3_OneRecordPerSource ==
  \A d \in DocIds : Cardinality(RecordsOf(d)) <= 1

\* C4: in every reachable state, also after a failed write, each VectorRecord
\* refers to a source document whose stored is_embedded flag is true, and
\* every insert a request issues comes directly after that request's
\* successful flag update of the same document.
C4_RecordImpliesFlag ==
  /\ \A i \in DOMAIN ai_docs : sourceDocs[ai_docs[i].metadata.source_id].is_embedded
  /\ \A p \in Requests : \A j \in CallsOf(p, "insert") :
       /\ j > 1
       /\ calls[p][j - 1].op = "update"
       /\ calls[p][j - 1].ok
       /\ calls[p][j - 1].id = calls[p][j].id

\* C4 witness: a request has been answered after one of its writes failed,
\* and the store holds a VectorRecord.
C4_Witness ==
  \E p \in Requests :
    pc[p] = "done" /\ FailedWritesOf(p) # {} /\ ai_docs # <<>>

\* C5: when a write of saveEmbeddingsToDB fails at the k-th item, it is the
\* last call the request issues, the request is answered 500 with that
\* error, and the writes committed before it (the flag and the VectorRecord
\* of every earlier item, and the flag of item k when its insert failed) are
\* in the store as written.
C5_FirstFailureAborts ==
  \A p \in Requests : \A j \in FailedWritesOf(p) :
    LET items == SaveItems(embedded[p])
        failedInsert == calls[p][j].op = "insert"
    IN /\ j = Len(calls[p])
       /\ pc[p] = "done"
       /\ response[p].status = 500
       /\ response[p].error \in
            {MessageOf(e) : e \in PostgrestErrors(IF failedInsert THEN <<"docError">>
                                                  ELSE <<"updateError">>)}
       /\ calls[p][j].id = items[k[p]].doc.id
       /\ Cardinality(WritesOf(p)) = 2 * (k[p] - 1) + (IF failedInsert THEN 2 ELSE 1)
       /\ \A n \in 1..(k[p] - 1) :
            /\ sourceDocs[items[n].doc.id].is_embedded
            /\ \E r \in DOMAIN ai_docs : ai_docs[r] = VectorRecord(items[n], userId[p])
       /\ failedInsert => sourceDocs[items[k[p]].doc.id].is_embedded

\* C5 witness: a write failed at the second item, after the first item's
\* flag update and insert were committed.
C5_Witness ==
  \E p \in Requests : FailedWritesOf(p) # {} /\ k[p] = 2

\* C6: persistence is at-least-once: once a later request, arrived after
\* every other request was answered, has run its persistence stage with all
\* its remote calls succeeding, every document flagged embedded has at least
\* one VectorRecord. A document whose insert failed after its flag update is
\* never fetched again, so no later run persists it.
C6_LaterRunPersists ==
  \A q \in Requests :
    (/\ arrivedAfter[q] = Requests \ {q}
     /\ pc[q] = "fetchGoal"
     /\ AllCallsOk(q))
    => \A d \in DocIds : sourceDocs[d].is_embedded => RecordsOf(d) # {}

\* The request was answered because a request to the embedding provider
\* failed, or answered with no list, inside updateEmbeddings (before ragCall
\* looked up the goal).
HFErrors == {<<"featureExtraction failed">>, <<"HF API response is not an array">>}
GoalCalls(p) == {i \in CallsOf(p, "select") : calls[p][i].table = "app_users"}
UpdateEmbeddingsFailed(p) ==
  \/ /\ pc[p] = "done"
     /\ response[p].error \in HFErrors
     /\ GoalCalls(p) = {}
  \/ \E i \in CallsOf(p, "featureExtraction") :
       ~calls[p][i].ok /\ \A j \in GoalCalls(p) : i < j

\* C7: if the embedding call fails for any text of the batch, updateEmbeddings
\* returns no document at all, the request is answered 500 and has issued no
\* flag update and no insert; with no write by any request the store is as
\* it was at the start.
C7_EmbeddingFailureIsAtomic ==
  /\ \A p \in Requests :
       UpdateEmbeddingsFailed(p) =>
         /\ pc[p] = "done"
         /\ calls[p][Len(calls[p])].op = "featureExtraction"
         /\ embedded[p] = <<>>
         /\ WritesOf(p) = {}
         /\ response[p].status = 500
  /\ (\A p \in Requests : WritesOf(p) = {}) =>
       /\ ai_docs = <<>>
       /\ \A d \in DocIds : ~sourceDocs[d].is_embedded

\* C7 witness: the embedding of the second text of a batch failed after the
\* first text had been embedded.
C7_Witness ==
  \E p \in Requests :
    UpdateEmbeddingsFailed(p) /\ Cardinality(CallsOf(p, "featureExtraction")) >= 2

\* updateEmbeddings of request p has returned and its result is still held.
UpdateEmbeddingsReturned(p) ==
  \/ pc[p] \in {"updateFlag", "insertDoc", "fetchGoal"}
  \/ /\ pc[p] = "done"
     /\ \/ WritesOf(p) # {}
        \/ response[p].error = <<"OPEN_ROUTER_API_KEY is not set">>

\* C8: updateEmbeddings preserves order and length: its output is as long as
\* its input, and output[i] is input[i] with is_embedded true and with the
\* vector the provider computed for the text extracted from input[i].
C8_OrderAndLengthPreserved ==
  \A p \in Requests :
    UpdateEmbeddingsReturned(p) =>
      /\ Len(embedded[p]) = Len(fetched[p])
      /\ \A i \in DOMAIN fetched[p] :
           LET in == fetched[p][i]
               out == embedded[p][i]
           IN /\ DOMAIN out = DOMAIN in \cup {"embedding"}
              /\ \A f \in DOMAIN in \ {"is_embedded"} : out[f] = in[f]
              /\ out.is_embedded = TRUE
              /\ Len(out.embedding) >= EmbedDim
              /\ \A j \in DOMAIN out.embedding :
                   out.embedding[j] = <<extractText(in), j>>

\* C8 witness: updateEmbeddings has returned a batch of at least two
\* documents with different texts.
C8_Witness ==
  \E p \in Requests :
    /\ pc[p] = "updateFlag"
    /\ Len(embedded[p]) >= 2
    /\ extractText(fetched[p][1]) # extractText(fetched[p][2])

\* The search of request p reported an error.
RpcFailed(p) == \E i \in CallsOf(p, "rpc") : ~calls[p][i].ok

\* C9: fetchRagContext never fails: after the search was called the request is
\* at the completion request or was answered after it; when the search
\* reported an error the context is the empty list and the completion request
\* carries the prompt assembled from zero context documents.
C9_RetrievalErrorDegrades ==
  \A p \in Requests :
    CallsOf(p, "rpc") # {} =>
      /\ pc[p] \in {"completion", "done"}
      /\ pc[p] = "done" => calls[p][Len(calls[p])].op = "completion"
      /\ RpcFailed(p) =>
           /\ contextDocs[p] = <<>>
           /\ pc[p] = "done" =>
                calls[p][Len(calls[p])].text =
                  fitnessPlanPromptTemplate(<<>>, goal[p], RagInput(p))

\* C9 witness: the search failed and the request was answered with a plan.
C9_Witness ==
  \E p \in Requests : RpcFailed(p) /\ response[p].status = 200

\* The goal lookup of request p reported an error.
GoalFailed(p) == \E i \in GoalCalls(p) : ~calls[p][i].ok

\* The query embedding of request p failed: its last call is the request to
\* the embedding provider that followed the goal lookup, and it was answered.
QueryEmbeddingFailed(p) ==
  /\ pc[p] = "done"
  /\ GoalCalls(p) # {}
  /\ calls[p][Len(calls[p])].op = "featureExtraction"

\* C10: in ragCall a goal-lookup error is swallowed (goal is the empty string
\* and the run goes on to the query embedding); a failed query embedding
\* fails the request, and then neither the search nor the completion request
\* is issued; a failed completion request fails the request.
C10_RagCallFailurePolicy ==
  \A p \in Requests :
    /\ GoalFailed(p) =>
         /\ goal[p] = Empty
         /\ pc[p] # "done" \/ calls[p][Len(calls[p])].op \in {"featureExtraction", "completion"}
    /\ GoalCalls(p) # {} /\ pc[p] = "done" /\ response[p].error \in HFErrors =>
         QueryEmbeddingFailed(p)
    /\ QueryEmbeddingFailed(p) =>
         /\ response[p].status = 500
         /\ response[p].error \in HFErrors
         /\ CallsOf(p, "rpc") = {}
         /\ CallsOf(p, "completion") = {}
    /\ CallsOf(p, "rpc") # {} \/ pc[p] = "fetchContext" =>
         /\ queryEmbedding[p] # <<>>
         /\ \A i \in CallsOf(p, "featureExtraction") : calls[p][i].ok
    /\ \A i \in CallsOf(p, "completion") :
         /\ pc[p] = "done"
         /\ response[p].status = IF calls[p][i].ok THEN 200 ELSE 500

\* C10 witness: one request was answered with a plan although its goal lookup
\* failed, and another was answered 500 after its query embedding failed.
C10_Witness ==
  \E p, q \in Requests :
    /\ GoalFailed(p) /\ response[p].status = 200 /\ goal[p] = Empty
    /\ QueryEmbeddingFailed(q) /\ response[q].status = 500

\* The remote calls of ragCall in request p: the calls from the goal lookup on.
Least(S) == CHOOSE x \in S : \A y \in S : x <= y
RagTrace(p) ==
  IF GoalCalls(p) = {} THEN <<>>
  ELSE SubSeq(calls[p], Least(GoalCalls(p)), Len(calls[p]))
RagOrder == <<"select", "featureExtraction", "rpc", "completion">>
\* Where the handler is suspended after n calls of ragCall have been answered.
RagPosition(n) ==
  CASE n = 1 -> {"embedQuery"}
    [] n = 2 -> {"fetchContext", "done"}
    [] n = 3 -> {"completion"}
    [] n = 4 -> {"done"}
    [] OTHER -> {}

\* C11: every ragCall performs its external steps in the fixed order goal
\* lookup, query embedding, context retrieval, prompt assembly, completion
\* request, each at most once and each after the previous one was answered;
\* the query embedded is the input, the prompt sent is assembled from the
\* goal and context obtained before, and the text returned is extracted from
\* the answer of that completion request.
C11_RagCallOrder ==
  \A p \in Requests :
    LET t == RagTrace(p)
    IN /\ Len(t) <= Len(RagOrder)
       /\ \A i \in DOMAIN t : t[i].op = RagOrder[i]
       /\ t # <<>> => pc[p] \in RagPosition(Len(t))
       /\ t = <<>> => pc[p] \notin {"embedQuery", "fetchContext", "completion"}
       /\ Len(t) >= 2 => t[2].text = RagInput(p)
       /\ Len(t) >= 3 =>
            /\ t[2].ok
            /\ \A j \in DOMAIN queryEmbedding[p] :
                 queryEmbedding[p][j] = <<RagInput(p), j>>
       /\ Len(t) = 4 => t[4].text = finalPrompt(p)
       /\ response[p].status = 200 =>
            /\ Len(t) = 4 /\ t[4].ok
            /\ response[p].fitnessPlan \in {resultText(c) : c \in CompletionContents}

\* C11 witness: a ragCall ran all its steps, with context retrieved from the
\* store, and its text was returned.
C11_Witness ==
  \E p \in Requests :
    /\ response[p].status = 200
    /\ contextDocs[p] # <<>>
    /\ response[p].fitnessPlan # Empty

\* The calls a request issues, in order, for fetch, updateEmbeddings and
\* saveEmbeddingsToDB when each of them succeeds on the batch it fetched.
ExpectedWrites(items) ==
  [n \in 1..(2 * Len(items)) |->
     IF n % 2 = 1
     THEN Call("update", items[(n + 1) \div 2].table, items[(n + 1) \div 2].doc.id, Empty, TRUE)
     ELSE Call("insert", "ai_docs", items[n \div 2].doc.id, Empty, TRUE)]
ExpectedPersistCalls(p) ==
  <<Call("select", "plans", 0, Empty, TRUE), Call("select", "entries", 0, Empty, TRUE)>>
    \o [i \in 1..Len(fetched[p]) |->
          Call("featureExtraction", "", 0, extractText(fetched[p][i]), TRUE)]
    \o ExpectedWrites(SaveItems(embedded[p]))

\* C12: the endpoint runs embed-and-persist before generate. When ragCall is
\* started the request has issued exactly the two selects, one embedding
\* request per fetched document and a flag update and an insert per item,
\* all answered without error; no call of ragCall precedes or is followed by
\* a call of the earlier phases; and {success: true, fitnessPlan} is sent only
\* after the completion request of ragCall was answered.
C12_PersistBeforeGenerate ==
  \A p \in Requests :
    /\ SaveReturned(p) =>
         /\ calls[p] = ExpectedPersistCalls(p)
         /\ Len(embedded[p]) = Len(fetched[p])
    /\ \A g \in GoalCalls(p) :
         /\ g > 2
         /\ \A i \in 1..(g - 1) :
              /\ calls[p][i].ok
              /\ calls[p][i].op \in {"select", "featureExtraction", "update", "insert"}
         /\ \A i \in (g + 1)..Len(calls[p]) :
              /\ ~IsWrite(calls[p][i])
              /\ calls[p][i].op # "select"
    /\ \A i \in DOMAIN calls[p] :
         calls[p][i].op \in {"rpc", "completion"} => GoalCalls(p) # {}
    /\ response[p].status = 200 =>
         LET last == calls[p][Len(calls[p])]
         IN /\ pc[p] = "done"
            /\ last.op = "completion" /\ last.ok
            /\ response[p].fitnessPlan \in {resultText(c) : c \in CompletionContents}

\* C12 witness: a request that persisted at least two items was answered
\* with a plan.
C12_Witness ==
  \E p \in Requests :
    /\ response[p].status = 200
    /\ Cardinality(WritesOf(p)) >= 4

\* The calls whose failure is not swallowed by the function that issues them
\* (fetchUserGoal and fetchRagContext swallow theirs).
Propagates(c) ==
  \/ c.op = "select" /\ c.table \in {"plans", "entries"}
  \/ c.op \in {"featureExtraction", "update", "insert", "completion"}

\* The messages the endpoint may send for a failure of call c.
StoreMessages(message) == {MessageOf(e) : e \in PostgrestErrors(message)}
FailureMessages(c) ==
  CASE c.op = "select" /\ c.table = "plans" -> StoreMessages(<<"plansError">>)
    [] c.op = "select" /\ c.table = "entries" -> StoreMessages(<<"entriesError">>)
    [] c.op = "update" -> StoreMessages(<<"updateError">>)
    [] c.op = "insert" -> StoreMessages(<<"docError">>)
    [] c.op = "featureExtraction" -> {<<"featureExtraction failed">>}
    [] c.op = "completion" ->
         {<<"fetch failed">>,
          <<"OpenRouter API error: ", ToString(c.id), " ", "errText">>}
    [] OTHER -> {}

\* The failures that no call records: a missing key, and an answer of the
\* embedding provider that is no list.
LocalMessages ==
  {<<"HUGGINGFACE_API_KEY is not set">>, <<"OPEN_ROUTER_API_KEY is not set">>,
   <<"HF API response is not an array">>}

\* C13: the endpoint answers 400 {error} exactly when userId is missing, and
\* 500 {error: message} for every failure propagated from document fetch,
\* embedding, persistence or ragCall; a request that was answered 200 had no
\* propagated failure, and no status other than 200, 400 and 500 is sent. The
\* message is the thrown Error's message, or 'Unknown error' when the thrown
\* value is no Error.
C13_StatusMapping ==
  \A p \in Requests :
    /\ response[p].status \in (IF pc[p] = "done" THEN {200, 400, 500} ELSE {0})
    /\ response[p].status = 400 <=> (pc[p] = "done" /\ userId[p] = NoUser)
    /\ response[p].status = 400 =>
         response[p].error = <<"userId is required">> /\ calls[p] = <<>>
    /\ \A i \in DOMAIN calls[p] :
         (Propagates(calls[p][i]) /\ ~calls[p][i].ok) =>
           /\ i = Len(calls[p])
           /\ response[p].status = 500
           /\ response[p].error \in FailureMessages(calls[p][i])
    /\ (pc[p] = "done" /\ userId[p] # NoUser
          /\ (~env.HUGGINGFACE_API_KEY \/ ~env.OPEN_ROUTER_API_KEY)) =>
         response[p].status = 500
    /\ response[p].status = 500 =>
         /\ response[p].fitnessPlan = Empty
         /\ \/ response[p].error \in LocalMessages
            \/ /\ calls[p] # <<>>
               /\ ~calls[p][Len(calls[p])].ok
               /\ Propagates(calls[p][Len(calls[p])])
    /\ response[p].status = 200 =>
         /\ response[p].error = Empty
         /\ \A i \in DOMAIN calls[p] : Propagates(calls[p][i]) => calls[p][i].ok
         /\ env.HUGGINGFACE_API_KEY /\ env.OPEN_ROUTER_API_KEY

\* C13 witness: one request without userId was answered 400 and another,
\* whose store write failed with an error object that is no Error, 500.
C13_Witness ==
  \E p, q \in Requests :
    /\ response[p].status = 400
    /\ response[q].status = 500
    /\ response[q].error = UNKNOWN_ERROR
    /\ FailedWritesOf(q) # {}

\* The text fields of the text-typed segments of a content list, in order.
IsTextSegment(item) == item.type = "text"
TextsOfSegments(content) ==
  LET kept == SelectSeq(content, IsTextSegment)
  IN [i \in 1..Len(kept) |-> kept[i].text]

\* C14: for a successful completion whose content is a list of typed
\* segments, the text returned equals the text fields of the text-typed
\* segments, in order, joined by single newlines; other segments contribute
\* nothing. The code maps a segment of another type to the empty string
\* before joining, so it contributes an empty line.
C14_OnlyTextSegmentsJoined ==
  \A p \in Requests :
    response[p].status = 200 =>
      response[p].fitnessPlan \in
        {Join(TextsOfSegments(c), <<"\n">>) : c \in CompletionContents}

\* C15: when the completion endpoint answers with a non-success status,
\* ragCall fails with an error that carries that status code and the body of
\* the response, and a ragCall issues exactly one completion request whether
\* it succeeds or fails (no retry).
C15_CompletionFailure ==
  \A p \in Requests :
    /\ Cardinality(CallsOf(p, "completion")) <= 1
    /\ (pc[p] = "done" /\ CallsOf(p, "rpc") # {}) =>
         Cardinality(CallsOf(p, "completion")) = 1
    /\ \A i \in CallsOf(p, "completion") :
         LET c == calls[p][i]
         IN /\ i = Len(calls[p])
            /\ c.ok <=> c.id = 200
            /\ c.id \in ErrorStatuses =>
                 /\ response[p].status = 500
                 /\ response[p].error =
                      <<"OpenRouter API error: ", ToString(c.id), " ", "errText">>
                 /\ response[p].fitnessPlan = Empty

\* C15 witness: the completion endpoint answered 429 and the request failed
\* with the error that carries 429.
C15_Witness ==
  \E p \in Requests :
    /\ response[p].status = 500
    /\ \E i \in CallsOf(p, "completion") : calls[p][i].id = 429
    /\ response[p].error[2] = "429"

\* A text that is empty or made of blanks only.
IsBlank(text) == \A j \in DOMAIN text : text[j] = " "

\* The requests to the embedding provider that updateEmbeddings of request
\* p issued: those before the goal lookup.
DocumentCalls(p) ==
  {i \in CallsOf(p, "featureExtraction") : \A g \in GoalCalls(p) : i < g}

\* C16: the text submitted to the embedding provider for a document is never
\* empty and never whitespace-only: a document whose text fields are blank
\* is submitted as 'No content'. The code substitutes only when the joined
\* text is the empty string; it does not trim.
C16_TextNeverBlank ==
  \A p \in Requests : \A i \in DocumentCalls(p) : ~IsBlank(calls[p][i].text)

\* C17: for an answer of the embedding provider that is a list of lists,
\* embedDocuments returns one flat vector equal to the concatenation of the
\* inner lists in order; for an answer that is a flat list it returns the
\* list unchanged.
C17_FlattenConcatenates ==
  \A p \in Requests :
    UpdateEmbeddingsReturned(p) =>
      \A i \in DOMAIN embedded[p] :
        LET text == extractText(fetched[p][i])
            v == embedded[p][i].embedding
            rows == NestedAnswer(text).val
        IN IF pooled
           THEN v = FlatAnswer(text).val
           ELSE /\ Len(v) = Len(rows) * EmbedDim
                /\ \A t \in DOMAIN rows : \A j \in 1..EmbedDim :
                     v[(t - 1) * EmbedDim + j] = rows[t][j]

\* C17 witness: the provider answered with three inner lists for a document
\* and updateEmbeddings returned.
C17_Witness ==
  \E p \in Requests :
    /\ ~pooled
    /\ pc[p] = "updateFlag"
    /\ Len(NestedAnswer(extractText(fetched[p][1])).val) >= 3

\* The context section of a prompt: what stands between the line that
\* introduces the context and the closing instruction.
RECURSIVE IndexOf(_, _, _)
IndexOf(text, token, from) ==
  IF from > Len(text) THEN 0
  ELSE IF text[from] = token THEN from
  ELSE IndexOf(text, token, from + 1)
ContextSection(prompt) ==
  LET a == IndexOf(prompt, "Use the following relevant context: ", 1)
      b == IndexOf(prompt, "Create a detailed fitness plan.", a + 1)
  IN SubSeq(prompt, a + 1, b - 1)

\* C18: whenever the list of context documents is empty (nothing retrieved,
\* or retrieval failed), the prompt sent has the literal 'No previous context
\* available.' as its context section; the context section of a prompt is
\* never blank.
C18_EmptyContextPlaceholder ==
  \A p \in Requests : \A i \in CallsOf(p, "completion") :
    /\ contextDocs[p] = <<>> => ContextSection(calls[p][i].text) = NO_CONTEXT
    /\ contextDocs[p] # <<>> =>
         ContextSection(calls[p][i].text) = Join(contextStrings(contextDocs[p]), <<"\n\n">>)
    /\ ~IsBlank(ContextSection(calls[p][i].text))

\* C18 witness: one request sent a prompt after the search returned no row,
\* another after the search failed.
C18_Witness ==
  \E p, q \in Requests :
    /\ CallsOf(p, "completion") # {} /\ ~RpcFailed(p) /\ contextDocs[p] = <<>>
    /\ CallsOf(q, "completion") # {} /\ RpcFailed(q)

\* The vector the provider of this run computes for a text, flattened.
EmbeddingOf(text) ==
  flatEmbedding(IF pooled THEN FlatAnswer(text) ELSE NestedAnswer(text))

\* C19: each VectorRecord inserted for a plan has type 'plan', content equal
\* to the plan's plan_text and metadata {source_id, generated_at}; each
\* VectorRecord inserted for an entry has the entry's own type, the entry's
\* content, the entry's embedding as vector and metadata {source_id,
\* entry_type, timestamp}.
C19_RecordFields ==
  \A r \in DOMAIN ai_docs :
    LET rec == ai_docs[r]
        src == sourceDocs[rec.metadata.source_id]
    IN /\ rec.vector = EmbeddingOf(extractText(src))
       /\ rec.embedding_model = EMBEDDING_MODEL
       /\ IF IsPlan(src)
          THEN /\ rec.type = "plan"
               /\ rec.content = src.plan_text
               /\ rec.metadata = [source_id |-> src.id, generated_at |-> src.generated_at]
          ELSE /\ IsEntry(src)
               /\ rec.type = src.type
               /\ rec.content = src.content
               /\ rec.metadata = [source_id |-> src.id, entry_type |-> src.type,
                                  timestamp |-> src.timestamp]

\* C19 witness: the store holds a VectorRecord of a plan and one of an entry.
C19_Witness ==
  \E a, b \in DOMAIN ai_docs :
    /\ ai_docs[a].type = "plan"
    /\ ai_docs[b].type = "workout_note" /\ "entry_type" \in DOMAIN ai_docs[b].metadata

\* C20: absence of a required key is fatal at first use: with the key of the
\* embedding provider absent no request is sent to the embedding provider,
\* by updateEmbeddings or by ragCall, and with the key of the completion
\* provider absent no completion request is sent. ragCall does not check the
\* key of the embedding provider: it builds its client with the empty string
\* and sends the query to be embedded.
C20_KeyAbsenceIsFatal ==
  /\ ~env.HUGGINGFACE_API_KEY =>
       \A p \in Requests : CallsOf(p, "featureExtraction") = {}
  /\ ~env.OPEN_ROUTER_API_KEY =>
       \A p \in Requests : CallsOf(p, "completion") = {}

\* C21: embedDocuments returns no partial result and does not retry. While
\* the batch of a request is known, the requests it sent to the embedding
\* provider are one per text, for the texts 1..n of the batch in order; only
\* the last of them can have failed; when the request for the k-th text
\* failed or was answered with no list, embedDocuments failed, nothing was
\* returned to updateEmbeddings' caller and no text after k was requested.
C21_NoPartialResultNoRetry ==
  \A p \in Requests :
    GoalCalls(p) = {} =>
      LET texts == textsOf(fetched[p])
          n == Cardinality(DocumentCalls(p))
          failed == n > 0 /\ pc[p] = "done" /\ Len(calls[p]) = 2 + n
                      /\ response[p].error \in HFErrors
      IN /\ n <= Len(texts)
         /\ DocumentCalls(p) = 3..(2 + n)
         /\ \A i \in 1..n : calls[p][2 + i].text = texts[i]
         /\ \A i \in 1..(n - 1) : calls[p][2 + i].ok
         /\ (n > 0 /\ ~calls[p][2 + n].ok) => failed
         /\ failed =>
              /\ response[p].status = 500
              /\ embedded[p] = <<>>
              /\ WritesOf(p) = {}
         /\ pc[p] = "embedDocuments" => n = Len(embeddings[p]) /\ n < Len(texts)
         /\ embedded[p] # <<>> => n = Len(texts) /\ calls[p][2 + n].ok

\* C21 witness: in a batch of three texts the request for the second failed.
C21_Witness ==
  \E p \in Requests :
    /\ Len(fetched[p]) = 3
    /\ pc[p] = "done"
    /\ Len(calls[p]) = 4
    /\ calls[p][4].op = "featureExtraction"
    /\ response[p].error \in HFErrors

\* C22: within one embedDocuments call at most one embedding request is in
\* flight at any time: the request in flight is the one for the text after
\* those already answered; on success exactly one request per text was
\* answered, in the order of the texts, and the i-th vector returned comes
\* from the answer for the i-th text.
C22_OneRequestInFlight ==
  \A p \in Requests :
    LET texts == textsOf(fetched[p])
        n == Cardinality(DocumentCalls(p))
    IN /\ Len(inflight[p]) <= 1
       /\ inflight[p] # <<>> =>
            /\ pc[p] = "embedDocuments"
            /\ n = Len(embeddings[p])
            /\ inflight[p][1] = texts[n + 1]
            /\ \A i \in DocumentCalls(p) : calls[p][i].ok
       /\ \A i \in 1..n : calls[p][2 + i].text = texts[i]
       /\ embedded[p] # <<>> =>
            /\ n = Len(texts)
            /\ \A i \in DOMAIN embedded[p] :
                 /\ embedded[p][i].id = fetched[p][i].id
                 /\ embedded[p][i].embedding = EmbeddingOf(calls[p][2 + i].text)

\* C22 witness: the request for the third text of a batch is in flight after
\* the first two were answered.
C22_Witness ==
  \E p \in Requests :
    /\ inflight[p] # <<>>
    /\ Len(embeddings[p]) = 2
    /\ inflight[p][1] # textsOf(fetched[p])[1]

\* C23: the only store mutations of the pipeline are setting a source
\* record's is_embedded to true and inserting a VectorRecord: no step sets a
\* flag back to false, changes another field of a source record, or changes
\* or removes an existing VectorRecord.
C23_OnlyFlagAndInsert ==
  [][/\ \A d \in DocIds :
          \/ sourceDocs'[d] = sourceDocs[d]
          \/ sourceDocs'[d] = [sourceDocs[d] EXCEPT !.is_embedded = TRUE]
     /\ \/ ai_docs' = ai_docs
        \/ /\ Len(ai_docs') = Len(ai_docs) + 1
           /\ SubSeq(ai_docs', 1, Len(ai_docs)) = ai_docs]_vars

\* C23 witness: two requests have both updated the flag of the same document
\* and the store holds records.
C23_Witness ==
  /\ ai_docs # <<>>
  /\ \E d \in DocIds :
       /\ sourceDocs[d].is_embedded
       /\ \A p \in Requests :
            \E i \in CallsOf(p, "update") : calls[p][i].id = d /\ calls[p][i].ok

\* C24: every vector embedDocuments produces for the embedding model, and so
\* every vector stored, has the same fixed length, the dimension of the
\* model, whether the provider answered with a flat vector or with a list of
\* per-token vectors. The code flattens a list of per-token vectors into one
\* vector of tokens times dimension numbers.
C24_FixedVectorLength ==
  /\ \A p \in Requests : \A i \in DOMAIN embedded[p] :
       Len(embedded[p][i].embedding) = EmbedDim
  /\ \A r \in DOMAIN ai_docs : Len(ai_docs[r].vector) = EmbedDim

\* C25: for every VectorRecord the pipeline inserts, vector is the embedding
\* of the very text stored in content. The text updateEmbeddings submits is
\* built from title/name, description and content/notes: it never reads
\* plan_text, and for an entry it adds title and description to content.
C25_VectorOfContent ==
  \A r \in DOMAIN ai_docs : ai_docs[r].vector = EmbeddingOf(ai_docs[r].content)

\* ragCall of request p failed: the completion key is missing, or the query
\* embedding or the completion request failed.
RagCallFailed(p) ==
  /\ pc[p] = "done"
  /\ response[p].status # 200
  /\ \/ GoalCalls(p) # {}
     \/ response[p].error = <<"OPEN_ROUTER_API_KEY is not set">>

\* The successful writes of request p of one kind, and of all requests.
OkCalls(p, op) == {i \in CallsOf(p, op) : calls[p][i].ok}
AllOkInserts == {<<p, i>> \in Requests \X (1..(2 + 3 * MaxDocs)) : i \in OkCalls(p, "insert")}

\* C26: when ragCall fails after saveEmbeddingsToDB succeeded in the same
\* request, the request is answered 500 and every flag and VectorRecord that
\* request wrote is still in the store; no VectorRecord any request inserted
\* is ever missing.
C26_NothingUnwound ==
  /\ \A p \in Requests :
       RagCallFailed(p) =>
         /\ response[p].status = 500
         /\ FailedWritesOf(p) = {}
         /\ \A i \in OkCalls(p, "update") : sourceDocs[calls[p][i].id].is_embedded
         /\ \A i \in OkCalls(p, "insert") :
              \E r \in RecordsOf(calls[p][i].id) : ai_docs[r].user_id = userId[p]
  /\ Len(ai_docs) = Cardinality(AllOkInserts)

\* C26 witness: a request that wrote flags and records was answered 500
\* because its completion request failed.
C26_Witness ==
  \E p \in Requests :
    /\ RagCallFailed(p)
    /\ OkCalls(p, "insert") # {}
    /\ \E i \in CallsOf(p, "completion") : ~calls[p][i].ok

\* The persistence stage of request q fully succeeded: saveEmbeddingsToDB
\* returned and ragCall was entered.
PersistenceSucceeded(q) ==
  \/ GoalCalls(q) # {}
  \/ pc[q] = "fetchGoal"
  \/ pc[q] = "done" /\ response[q].error = <<"OPEN_ROUTER_API_KEY is not set">>
PersistedBy(q) == {calls[q][i].id : i \in OkCalls(q, "insert")}

\* C27: a sequential re-run is idempotent on the store: a request that
\* arrives after a request whose persistence stage fully succeeded was
\* answered issues no flag update and no insert for a document the first
\* one persisted, and each such document keeps exactly one VectorRecord.
C27_RerunIsIdempotent ==
  \A p, q \in Requests :
    (q \in arrivedAfter[p] /\ PersistenceSucceeded(q)) =>
      /\ \A i \in WritesOf(p) : calls[p][i].id \notin PersistedBy(q)
      /\ \A d \in PersistedBy(q) : Cardinality(RecordsOf(d)) = 1

\* C27 witness: the first request persisted two documents, and the second,
\* arrived after its answer, has run past its own persistence stage.
C27_Witness ==
  \E p, q \in Requests :
    /\ q \in arrivedAfter[p]
    /\ PersistenceSucceeded(q)
    /\ Cardinality(PersistedBy(q)) >= 2
    /\ PersistenceSucceeded(p)

\* Request p carries no userId and has been received.
WithoutUserId(p) == pc[p] # "idle" /\ userId[p] = NoUser

\* C28: a request without userId has no effect: it is answered 400 in the
\* step that receives it, which leaves the store unchanged, and it never
\* issues a store read, an embedding request, a store write or a completion
\* request.
C28_MissingUserIdHasNoEffect ==
  /\ [](\A p \in Requests :
          WithoutUserId(p) =>
            /\ pc[p] = "done"
            /\ response[p].status = 400
            /\ calls[p] = <<>>
            /\ fetched[p] = <<>> /\ embedded[p] = <<>> /\ queryEmbedding[p] = <<>>)
  /\ [][\A p \in Requests :
          (userId'[p] = NoUser /\ pc[p] = "idle" /\ pc'[p] # "idle") =>
            (sourceDocs' = sourceDocs /\ ai_docs' = ai_docs)]_vars

\* C28 witness: a request without userId was answered 400 while the store
\* holds what another request wrote.
C28_Witness ==
  \E p \in Requests :
    /\ WithoutUserId(p)
    /\ response[p].status = 400
    /\ ai_docs # <<>>

\* The entries of a list, as a set.
Elems(list) == {list[i] : i \in DOMAIN list}

\* C29: in EntriesPage, after any interleaving of add and delete handlers
\* whose remote calls all succeed, the displayed entries are the initial
\* entries plus every added entry minus every deleted entry. A handler sets
\* the list from the entries it read when it was started, so the result of a
\* handler that resolved in between is overwritten.
C29_ListAfterHandlers ==
  pending = {} =>
    Elems(pageEntries) = (Elems(LoadedEntries) \cup added) \ deleted

\* C30: every received request eventually sends an HTTP response, provided
\* every external call eventually resolves or rejects; a response, once
\* sent, is never followed by another; and the external calls of a request
\* are bounded by the documents it fetched: two selects, at most three calls
\* per fetched document, and at most four calls of ragCall.
C30_ExactlyOneResponse ==
  /\ \A p \in Requests : (pc[p] # "idle") ~> (response[p].status \in {200, 400, 500})
  /\ [][\A p \in Requests :
          response[p].status # 0 => response'[p] = response[p]]_vars
  /\ [](\A p \in Requests :
          /\ pc[p] = "done" <=> response[p].status # 0
          /\ Len(RagTrace(p)) <= 4
          /\ GoalCalls(p) = {} => Len(calls[p]) <= 2 + 3 * Len(fetched[p])
          /\ Len(calls[p]) <= 2 + 3 * MaxDocs + 4)

\* C30 witness: a request that fetched three documents and persisted two of
\* them was answered after thirteen external calls.
C30_Witness ==
  \E p \in Requests :
    /\ response[p].status = 200
    /\ Len(calls[p]) = 13

====
